---------------------------- MODULE Spec2Model ----------------------------
(***************************************************************************)
(* Consultation session: the session dictionary, the question window's    *)
(* event loop and the microphone recorder of gui.py, as a state machine.  *)
(*                                                                         *)
(* Text is a sequence of characters, so that strip()/rstrip() are real    *)
(* conversions.  Python objects that are shared by reference (the slot    *)
(* dictionaries and the general_notes list) live in heaps and are named   *)
(* by their address.                                                       *)
(***************************************************************************)
EXTENDS Integers, Sequences, FiniteSets, TLC

(* ------------------------------ bounds -------------------------------- *)
MaxTakes == 2
MaxChunks == 2
MaxNotes == 2

(* ------------------------------- text --------------------------------- *)
IsSpace(c) == c \in {" ", "\n", "\t"}

RStrip_identity(s) == s

RECURSIVE RStrip(_)
\* str.rstrip(): drop trailing whitespace
RStrip(s) ==
    IF s = <<>> THEN <<>>
    ELSE IF IsSpace(s[Len(s)]) THEN RStrip(SubSeq(s, 1, Len(s) - 1))
    ELSE s

RECURSIVE LStrip(_)
\* the leading half of str.strip()
LStrip(s) ==
    IF s = <<>> THEN <<>>
    ELSE IF IsSpace(Head(s)) THEN LStrip(Tail(s))
    ELSE s

\* str.strip(): drop leading and trailing whitespace
Strip(s) == LStrip(RStrip(s))

(* ------------------------------ inputs -------------------------------- *)
\* what the clinician may type into -TYPED-
TypedInputs == {<<>>, <<" ", "b", " ">>}
\* what the clinician may type into -NOTE_TEXT-
NoteInputs == {<<" ">>, <<"n", " ">>}
\* raw text Whisper may return for a take
WhisperTexts == {<<" ">>, <<" ", "x">>}
\* -PATIENT_NAME-, -PATIENT_DOB- entries
NameInputs == {<<" ">>, <<"J", " ">>}
DobInputs == {<<>>, <<"1990-01-01", " ">>, <<"01/01/90">>}
\* the second the clock reads at a datetime.now() call
Timestamps == {1}

\* datetime.now().isoformat(timespec="seconds") at second ts
Isoformat(ts) == <<"D", "-", "D", "T", "h", ":", ToString(ts)>>

\* datetime.now().strftime("%Y%m%d_%H%M%S") at second ts
Strftime(ts) == <<"D", "D", "_", "h", ToString(ts)>>

RECURSIVE Remove(_, _)
\* str.replace(c, '')
Remove(s, c) ==
    IF s = <<>> THEN <<>>
    ELSE IF Head(s) = c THEN Remove(Tail(s), c)
    ELSE <<Head(s)>> \o Remove(Tail(s), c)

\* datetime.datetime.fromisoformat(dob) does not raise
FromIsoformatOk(dob) == dob = <<"1990-01-01">>

(* ------------------------------ catalog ------------------------------- *)
Q(i, t) == [id |-> i, text |-> t]

\* question_sets after transform_question_sets: category -> ordered
\* (subcategory, question list) pairs; Python dicts keep insertion order.
question_sets ==
    [c \in {"Mood", "Anxiety", "Blank"} |->
        CASE c = "Mood" ->
               << [subcat |-> "General", questions |-> <<Q(1, "t1"), Q(2, "t2")>>] >>
          [] c = "Anxiety" ->
               << [subcat |-> "Panic", questions |-> <<Q(3, "t3")>>],
                  [subcat |-> "Other", questions |-> <<>>],
                  [subcat |-> "Sleep", questions |-> <<Q(4, "t4")>>] >>
          [] c = "Blank" -> << >> ]

\* the choices of the category Combo (readonly), and no choice
CategoryInputs == DOMAIN question_sets \cup {""}

(* --------------------------- dictionary helpers ----------------------- *)
\* list(d.keys())
Keys(qbs) == [i \in 1..Len(qbs) |-> qbs[i].subcat]

HasKey(qbs, sc) == \E i \in 1..Len(qbs) : qbs[i].subcat = sc

\* keys.index(sc)
KeyIndex(qbs, sc) == CHOOSE i \in 1..Len(qbs) : qbs[i].subcat = sc

\* d[sc]: the list of slot addresses of a subcategory
SlotsOf(qbs, sc) == qbs[KeyIndex(qbs, sc)].slots

RECURSIVE SumLens(_, _)
\* sum(len(lst) for the first n values of d)
SumLens(qbs, n) == IF n = 0 THEN 0 ELSE SumLens(qbs, n - 1) + Len(qbs[n].slots)

RECURSIVE Flatten_reversed(_, _)
Flatten_reversed(qbs, n) ==
    IF n = 0 THEN <<>> ELSE qbs[n].slots \o Flatten_reversed(qbs, n - 1)

RECURSIVE Flatten(_, _)
\* flat = []; for sub in d.values(): flat.extend(sub)   (first n values)
Flatten(qbs, n) == IF n = 0 THEN <<>> ELSE Flatten(qbs, n - 1) \o qbs[n].slots


(* ------------------------------- state -------------------------------- *)
VARIABLES
    phase,            \* where run_app is: "setup", "question", "finalized",
                      \* "discarded", "exited" (setup cancelled), "crashed"
    sess,             \* temporary_session_data
    heap,             \* the slot dictionaries, by address
    lists,            \* the list objects (general_notes), by address
    window,           \* the question window's elements
    pc,               \* the primary thread inside a recording handler
    streams,          \* the sd.InputStream objects, by address: their state
    recorder_stream,  \* address of the latest InputStream, 0 for None
    recorder_chunks,  \* the capture buffer
    recorder_lock,    \* "free" or the thread holding it
    cb,               \* the audio callback thread: "idle" or "locked"
    report,           \* report_data handed to generate_docx_report
    popup,            \* text of the last sg.popup / popup_yes_no
    error,            \* the uncaught exception that ended the program
    trail,            \* history: '-NEXT-', or '-NEXT-' then '-PREV-', were the
                      \* last events, and the cursor and slots before them
    committed,        \* history: the texts last committed to each slot
    capture_slot      \* history: the slot at the cursor when the capture that
                      \* is running was started, 0 when none is

vars == << phase, sess, heap, lists, window, pc, streams,
           recorder_stream, recorder_chunks, recorder_lock, cb, report, popup,
           error, trail, committed, capture_slot >>

recorderVars ==
    << pc, streams, recorder_stream, recorder_chunks, recorder_lock, cb, capture_slot >>

\* temporary_session_data = {}
NoSession ==
    [ patient_name |-> <<>>, patient_dob |-> <<>>, diagnostic_category |-> "",
      started_at |-> <<>>, questions_by_subcat |-> <<>>, current_subcat |-> "",
      current_index |-> 0, general_notes |-> 0 ]

NoReport ==
    [ patient_name |-> <<>>, patient_dob |-> <<>>, diagnostic_category |-> "",
      started_at |-> <<>>, questions |-> <<>>, general_notes |-> 0 ]

\* the layout of question_window before the first refresh_ui
NewWindow ==
    [ QUESTION_TEXT |-> "", TRANSCRIPT |-> <<>>, TYPED |-> <<>>,
      SECTION_PROG |-> <<0, 0>>, TOTAL_PROG |-> <<0, 0>>,
      START_REC_disabled |-> FALSE, STOP_REC_disabled |-> TRUE ]

Cursor(s) == << s.current_subcat, s.current_index >>

NoTrail == [ev |-> "", cursor |-> Cursor(NoSession), heap |-> <<>>, clean |-> FALSE]

Init ==
    /\ phase = "setup"
    /\ sess = NoSession
    /\ heap = <<>>
    /\ lists = <<>>
    /\ window = NewWindow
    /\ pc = "idle"
    /\ streams = <<>>
    /\ recorder_stream = 0
    /\ recorder_chunks = <<>>
    /\ recorder_lock = "free"
    /\ cb = "idle"
    /\ report = NoReport
    /\ popup = ""
    /\ error = ""
    /\ trail = NoTrail
    /\ committed = <<>>
    /\ capture_slot = 0

(* --------------------------- session helpers -------------------------- *)
\* sess['questions_by_subcat'][sc][idx] evaluates without KeyError / IndexError
CursorValid(s) ==
    /\ HasKey(s.questions_by_subcat, s.current_subcat)
    /\ 0 <= s.current_index
    /\ s.current_index < Len(SlotsOf(s.questions_by_subcat, s.current_subcat))

\* the exception get_slot raises on a cursor that is no coordinate
GetSlotError(s) ==
    IF ~HasKey(s.questions_by_subcat, s.current_subcat) THEN "KeyError"
    ELSE "IndexError"

\* get_slot(): the address of the slot dictionary at the cursor
get_slot(s) == SlotsOf(s.questions_by_subcat, s.current_subcat)[s.current_index + 1]

commit_untrimmed(h, s, w) ==
    [h EXCEPT ![get_slot(s)].transcript = w.TRANSCRIPT,
              ![get_slot(s)].typed_answer = w.TYPED]

commit_skipped(h, s, w) == h

commit_wipes_audio(h, s, w) ==
    [h EXCEPT ![get_slot(s)].transcript = RStrip(w.TRANSCRIPT),
              ![get_slot(s)].typed_answer = Strip(w.TYPED),
              ![get_slot(s)].audio_path = <<>>]

\* commit_current_slot(window): the heap after the commit
commit_current_slot(h, s, w) ==
    [h EXCEPT ![get_slot(s)].transcript = RStrip(w.TRANSCRIPT),
              ![get_slot(s)].typed_answer = Strip(w.TYPED)]

\* the progress labels refresh_ui computes
SectionProg(s) ==
    << s.current_index + 1, Len(SlotsOf(s.questions_by_subcat, s.current_subcat)) >>

TotalProg(s) ==
    LET qbs == s.questions_by_subcat
        before == SumLens(qbs, KeyIndex(qbs, s.current_subcat) - 1)
    IN  << before + s.current_index + 1, SumLens(qbs, Len(qbs)) >>

refresh_ui_stale_typed(w, s, h) ==
    [w EXCEPT !.QUESTION_TEXT = h[get_slot(s)].question_text,
              !.TRANSCRIPT = h[get_slot(s)].transcript,
              !.SECTION_PROG = SectionProg(s),
              !.TOTAL_PROG = TotalProg(s)]

\* refresh_ui(window), on a cursor get_slot accepts
refresh_ui(w, s, h) ==
    [w EXCEPT !.QUESTION_TEXT = h[get_slot(s)].question_text,
              !.TRANSCRIPT = h[get_slot(s)].transcript,
              !.TYPED = h[get_slot(s)].typed_answer,
              !.SECTION_PROG = SectionProg(s),
              !.TOTAL_PROG = TotalProg(s)]

RECURSIVE BuildSubcats(_, _, _)
\* slots_by_subcat of initialize_session: the first n subcategories, the slot
\* dictionaries allocated at addresses base+1, base+2, ... in catalog order
BuildSubcats(raw, n, base) ==
    IF n = 0 THEN <<>>
    ELSE LET before == BuildSubcats(raw, n - 1, base)
             first == base + SumLens(before, Len(before))
         IN  Append(before,
                    [subcat |-> raw[n].subcat,
                     slots |-> [i \in 1..Len(raw[n].questions) |-> first + i]])

RECURSIVE NewSlots(_, _)
\* the slot dictionaries of the first n subcategories, in allocation order
NewSlots(raw, n) ==
    IF n = 0 THEN <<>>
    ELSE NewSlots(raw, n - 1) \o
         [i \in 1..Len(raw[n].questions) |->
            [question_id |-> raw[n].questions[i].id,
             question_text |-> raw[n].questions[i].text,
             transcript |-> <<>>, typed_answer |-> <<>>, audio_path |-> <<>>]]

Reading_after_return == phase \in {"question", "finalized", "discarded"} /\ pc = "idle"

\* the event loop of question_window is waiting in window.read()
Reading == phase = "question" /\ pc = "idle"

\* history: an event other than '-NEXT-' / '-PREV-' was handled
Forget == trail' = NoTrail

(* --------------------------- session setup ---------------------------- *)
\* session_setup_window, "Start Session", then run_app up to the first
\* refresh_ui of question_window
StartSession(nameIn, dobIn, cat, ts) ==
    LET name == Strip(nameIn)
        dob == Strip(dobIn)
    IN
    /\ phase = "setup"
    /\ Forget
    /\ IF name = <<>> \/ dob = <<>> \/ cat = ""
       THEN /\ popup' = "Please fill all fields."
            /\ UNCHANGED << phase, sess, heap, lists, window, error, committed >>
       ELSE IF ~FromIsoformatOk(dob)
       THEN /\ popup' = "DOB must be YYYY-MM-DD."
            /\ UNCHANGED << phase, sess, heap, lists, window, error, committed >>
       ELSE IF Len(question_sets[cat]) = 0
       THEN \* list(slots_by_subcat.keys())[0]
            /\ phase' = "crashed"
            /\ error' = "IndexError"
            /\ popup' = ""
            /\ UNCHANGED << sess, heap, lists, window, committed >>
       ELSE LET raw == question_sets[cat]
                qbs == BuildSubcats(raw, Len(raw), Len(heap))
                h == heap \o NewSlots(raw, Len(raw))
                l == Append(lists, <<>>)
                s == [ patient_name |-> name, patient_dob |-> dob,
                       diagnostic_category |-> cat, started_at |-> Isoformat(ts),
                       questions_by_subcat |-> qbs,
                       current_subcat |-> Keys(qbs)[1],
                       current_index |-> 0,
                       general_notes |-> Len(l) ]
            IN  /\ sess' = s
                /\ heap' = h
                /\ lists' = l
                /\ committed' = [a \in 1..Len(h) |->
                                    [transcript |-> <<>>, typed_answer |-> <<>>]]
                /\ IF CursorValid(s)
                   THEN /\ phase' = "question"
                        /\ window' = refresh_ui(NewWindow, s, h)
                        /\ error' = error
                   ELSE /\ phase' = "crashed"
                        /\ window' = NewWindow
                        /\ error' = GetSlotError(s)
                /\ popup' = ""
    /\ UNCHANGED << recorderVars, report >>

\* session_setup_window, "Cancel" or the window closed
SetupCancel ==
    /\ phase = "setup"
    /\ Forget
    /\ phase' = "exited"
    /\ UNCHANGED << sess, heap, lists, window, recorderVars, report,
                    popup, error, committed >>


(* ---------------------- question window: navigation ------------------- *)
\* the values the section Combo can hold: it lists the subcategories and,
\* not being readonly, its entry also takes typed text; the handler stores
\* whatever value the event carries
ComboValues(s) ==
    {s.questions_by_subcat[i].subcat : i \in 1..Len(s.questions_by_subcat)} \cup {"Zzz"}

\* what a handler's commit_current_slot call is given: cursor slot and buffers
NoteCommit ==
    committed' = [committed EXCEPT ![get_slot(sess)] =
                     [transcript |-> RStrip(window.TRANSCRIPT),
                      typed_answer |-> Strip(window.TYPED)]]

\* the clinician edits the -TYPED- box (no event reaches the loop)
TypeText(t) ==
    /\ Reading
    /\ t # window.TYPED
    /\ Forget
    /\ window' = [window EXCEPT !.TYPED = t]
    /\ popup' = ""
    /\ UNCHANGED << phase, sess, heap, lists, recorderVars, report,
                    error, committed >>

\* event '-SUBCAT-'
Subcat(v) ==
    LET h == commit_current_slot(heap, sess, window)
        s == [sess EXCEPT !.current_subcat = v, !.current_index = 0]
    IN
    /\ Reading
    /\ Forget
    /\ NoteCommit
    /\ heap' = h
    /\ sess' = s
    /\ IF CursorValid(s)
       THEN /\ window' = refresh_ui(window, s, h)
            /\ UNCHANGED << phase, error >>
       ELSE \* refresh_ui -> get_slot raises
            /\ phase' = "crashed"
            /\ error' = GetSlotError(s)
            /\ window' = window
    /\ popup' = ""
    /\ UNCHANGED << lists, recorderVars, report >>

CanNext_off_by_one(s) ==
    s.current_index < Len(SlotsOf(s.questions_by_subcat, s.current_subcat))

\* '-NEXT-': idx < len(sess['questions_by_subcat'][sc]) - 1
CanNext(s) ==
    s.current_index < Len(SlotsOf(s.questions_by_subcat, s.current_subcat)) - 1

\* '-PREV-': sess['current_index'] > 0
CanPrev(s) == s.current_index > 0

\* the shared shape of the '-NEXT-' and '-PREV-' handlers: commit, then move
\* by step and refresh if the bound check passes, else the notice
Move(ev, can, step, notice) ==
    LET h == commit_current_slot(heap, sess, window)
        s == [sess EXCEPT !.current_index = @ + step]
    IN
    /\ Reading
    /\ trail' = IF ev = "-NEXT-"
                THEN [ev |-> "next", cursor |-> Cursor(sess), heap |-> heap,
                      clean |-> heap = h]
                ELSE IF trail.ev = "next" THEN [trail EXCEPT !.ev = "next,prev"]
                ELSE NoTrail
    /\ NoteCommit
    /\ heap' = h
    /\ IF can
       THEN /\ sess' = s
            /\ popup' = ""
            /\ IF CursorValid(s)
               THEN /\ window' = refresh_ui(window, s, h)
                    /\ UNCHANGED << phase, error >>
               ELSE /\ phase' = "crashed"
                    /\ error' = GetSlotError(s)
                    /\ window' = window
       ELSE /\ popup' = notice
            /\ UNCHANGED << sess, window, phase, error >>
    /\ UNCHANGED << lists, recorderVars, report >>

\* event '-NEXT-'
NextQuestion == Move("-NEXT-", CanNext(sess), 1, "Last question in this section.")

\* event '-PREV-'
PrevQuestion == Move("-PREV-", CanPrev(sess), -1, "First question in this section.")

\* event '-PLAY-'; exists: os.path.exists(path).  The player is started or
\* 'No recording found.' is shown and dismissed: nothing of the session,
\* the window or the recorder changes either way.
Play(exists) ==
    /\ Reading
    /\ Forget
    /\ popup' = ""
    /\ UNCHANGED << phase, sess, heap, lists, window, recorderVars,
                    report, error, committed >>

(* ---------------------- question window: general notes ---------------- *)
\* f"{txt} (noted at {ts})"
NoteEntry(txt, ts) == txt \o <<" (noted at ">> \o Isoformat(ts) \o <<")">>

append_note_replace(l, txt, ts) ==
    IF l = <<>> THEN <<NoteEntry(txt, ts)>>
    ELSE [l EXCEPT ![Len(l)] = NoteEntry(txt, ts)]

\* sess['general_notes'].append(f"{txt} (noted at {ts})")
append_note(l, txt, ts) == Append(l, NoteEntry(txt, ts))

\* event '-GENERAL_NOTES-': the modal note window is opened, '-SAVE_NOTE-' is
\* pressed on the text txtIn, and the window is closed.  The window is modal
\* and its loop runs on the primary thread, so nothing but the audio callback
\* (which touches the recorder alone) runs meanwhile: one step.
\* Several saves in one window are several of these steps.
GeneralNotes(txtIn, ts) ==
    LET txt == Strip(txtIn)
    IN
    /\ Reading
    /\ Forget
    /\ IF txt # <<>>
       THEN /\ Len(lists[sess.general_notes]) < MaxNotes
            /\ lists' = [lists EXCEPT ![sess.general_notes] = append_note(@, txt, ts)]
            /\ popup' = ""
       ELSE /\ lists' = lists
            /\ popup' = "Note is empty."
    /\ UNCHANGED << phase, sess, heap, window, recorderVars, report,
                    error, committed >>

(* --------------------------- the recorder ----------------------------- *)
ActiveStreams == {i \in 1..Len(streams) : streams[i] = "active"}

StartButtons_left_enabled(w) == [w EXCEPT !.STOP_REC_disabled = FALSE]

\* '-START_REC-' handler: the two button updates
StartButtons(w) ==
    [w EXCEPT !.START_REC_disabled = TRUE, !.STOP_REC_disabled = FALSE]

StopButtons_stop_left_enabled(w) == [w EXCEPT !.START_REC_disabled = FALSE]

\* '-STOP_REC-' handler: the two button updates
StopButtons(w) ==
    [w EXCEPT !.START_REC_disabled = FALSE, !.STOP_REC_disabled = TRUE]

\* event '-START_REC-' (the button is enabled): the handler is entered
StartRecClick ==
    /\ Reading
    /\ ~window.START_REC_disabled
    /\ Len(streams) < MaxTakes
    /\ Forget
    /\ pc' = "start_recording"
    /\ popup' = ""
    /\ UNCHANGED << phase, sess, heap, lists, window, streams,
                    recorder_stream, recorder_chunks, recorder_lock, cb,
                    report, error, committed, capture_slot >>

\* start_recording(): the buffer is replaced, a stream is opened and started;
\* then the buttons are updated
StartRecording ==
    /\ phase = "question" /\ pc = "start_recording"
    /\ recorder_chunks' = <<>>
    /\ streams' = Append(streams, "active")
    /\ recorder_stream' = Len(streams) + 1
    /\ window' = StartButtons(window)
    /\ capture_slot' = get_slot(sess)
    /\ pc' = "idle"
    /\ UNCHANGED << phase, sess, heap, lists, recorder_lock, cb,
                    report, popup, error, trail, committed >>

\* the audio thread enters callback and takes recorder_lock
CallbackEnter ==
    /\ phase # "crashed"
    /\ ActiveStreams # {}
    /\ cb = "idle"
    /\ recorder_lock = "free"
    /\ Len(recorder_chunks) < MaxChunks
    /\ recorder_lock' = "callback"
    /\ cb' = "locked"
    /\ UNCHANGED << phase, sess, heap, lists, window, pc, streams,
                    recorder_stream, recorder_chunks, report, popup, error,
                    trail, committed, capture_slot >>

\* recorder_chunks.append(indata.copy()), and the lock is released
CallbackAppend ==
    /\ phase # "crashed"
    /\ cb = "locked"
    /\ recorder_chunks' = Append(recorder_chunks, Len(recorder_chunks) + 1)
    /\ recorder_lock' = "free"
    /\ cb' = "idle"
    /\ UNCHANGED << phase, sess, heap, lists, window, pc, streams,
                    recorder_stream, report, popup, error, trail, committed,
                    capture_slot >>

StreamStopClose_forgotten(st, r) == st

\* recorder_stream.stop(); recorder_stream.close()
StreamStopClose(st, r) == [st EXCEPT ![r] = "closed"]

\* event '-STOP_REC-' (the button is enabled): stop() returns once no
\* callback is running; the stream is closed
StopRecClick ==
    /\ Reading
    /\ ~window.STOP_REC_disabled
    /\ cb = "idle"
    /\ Forget
    /\ streams' = StreamStopClose(streams, recorder_stream)
    /\ pc' = "concatenate"
    /\ popup' = ""
    /\ UNCHANGED << phase, sess, heap, lists, window, recorder_stream,
                    recorder_chunks, recorder_lock, cb, report, error,
                    committed, capture_slot >>

\* the file name of stop_recording_and_save
WavPath(session_id, question_id, ts) ==
    <<"session_">> \o Remove(Remove(session_id, ":"), "-") \o
    <<"_q_", ToString(question_id), "_">> \o Strftime(ts) \o <<".wav">>

\* transcribe_audio_file: result["text"].strip()
transcribe_audio_file(raw) == Strip(raw)

Combined_overwrite(existing, new_t) == new_t

\* existing + ('\n' if existing else '') + new_t
Combined(existing, new_t) ==
    existing \o (IF existing # <<>> THEN <<"\n">> ELSE <<>>) \o new_t

\* stop_recording_and_save from np.concatenate on, then the rest of the
\* '-STOP_REC-' handler
StopRecSave(ts, raw) ==
    /\ phase = "question" /\ pc = "concatenate"
    /\ pc' = "idle"
    /\ capture_slot' = 0
    /\ IF recorder_chunks = <<>>
       THEN \* np.concatenate([]) raises ValueError
            /\ phase' = "crashed"
            /\ error' = "ValueError"
            /\ UNCHANGED << heap, window >>
       ELSE LET slot == get_slot(sess)
                wav == WavPath(sess.started_at, heap[slot].question_id, ts)
                new_t == transcribe_audio_file(raw)
                existing == RStrip(window.TRANSCRIPT)
            IN  /\ heap' = [heap EXCEPT ![slot].audio_path = wav]
                /\ window' = StopButtons(
                                [window EXCEPT !.TRANSCRIPT = Combined(existing, new_t)])
                /\ UNCHANGED << phase, error >>
    /\ UNCHANGED << sess, lists, streams, recorder_stream,
                    recorder_chunks, recorder_lock, cb, report, popup,
                    trail, committed >>

(* ------------------------- leaving the session ------------------------ *)
\* flat of run_app: the slot dictionaries themselves, subcategory by subcategory
Flat(s) == Flatten(s.questions_by_subcat, Len(s.questions_by_subcat))

\* report_data of run_app: questions and general_notes are the session's
\* own objects (their addresses), the other fields are strings
ReportData(s) ==
    [ patient_name |-> s.patient_name, patient_dob |-> s.patient_dob,
      diagnostic_category |-> s.diagnostic_category,
      started_at |-> s.started_at, questions |-> Flat(s),
      general_notes |-> s.general_notes ]

\* event '-FINISH-', the answer to popup_yes_no, and on 'Yes' the rest of run_app
Finish(answer) ==
    /\ Reading
    /\ Forget
    /\ IF answer = "Yes"
       THEN /\ NoteCommit
            /\ heap' = commit_current_slot(heap, sess, window)
            /\ report' = ReportData(sess)
            /\ window' = NewWindow
            /\ phase' = "finalized"
            /\ popup' = "Report generated successfully"
       ELSE /\ popup' = ""
            /\ UNCHANGED << heap, report, phase, window, committed >>
    /\ UNCHANGED << sess, lists, recorderVars, error >>

\* the window is closed, the answer to popup_yes_no, and on 'Yes' run_app returns
WinClosed(answer) ==
    /\ Reading
    /\ Forget
    /\ IF answer = "Yes"
       THEN /\ phase' = "discarded"
            /\ window' = NewWindow
            /\ popup' = "Session cancelled."
       ELSE /\ popup' = ""
            /\ UNCHANGED << phase, window >>
    /\ UNCHANGED << sess, heap, lists, recorderVars, report,
                    error, committed >>

(* --------------------------- specification ---------------------------- *)
Next ==
    \/ \E n \in NameInputs, d \in DobInputs, c \in CategoryInputs, ts \in Timestamps :
          StartSession(n, d, c, ts)
    \/ SetupCancel
    \/ \E t \in TypedInputs : TypeText(t)
    \/ \E v \in ComboValues(sess) : Subcat(v)
    \/ NextQuestion
    \/ PrevQuestion
    \/ \E e \in BOOLEAN : Play(e)
    \/ \E t \in NoteInputs, ts \in Timestamps : GeneralNotes(t, ts)
    \/ StartRecClick
    \/ StartRecording
    \/ CallbackEnter
    \/ CallbackAppend
    \/ StopRecClick
    \/ \E ts \in Timestamps, raw \in WhisperTexts : StopRecSave(ts, raw)
    \/ \E a \in {"Yes", "No"} : Finish(a)
    \/ \E a \in {"Yes", "No"} : WinClosed(a)

Spec == Init /\ [][Next]_vars


(* ------------------------------ properties ---------------------------- *)
Terminal == {"finalized", "discarded"}

SessionExists == sess # NoSession

\* C1: in every state of a session the cursor is a coordinate: current_subcat
\* is a key of questions_by_subcat and 0 <= current_index < len of its list.
C1_CursorAlwaysValid == SessionExists => CursorValid(sess)

TerminalStaysPut ==
    phase \in Terminal =>
        /\ phase' = phase
        /\ sess' = sess
        /\ heap' = heap
        /\ lists' = lists
        /\ report' = report

ReportView ==
    [ patient_name |-> report.patient_name, patient_dob |-> report.patient_dob,
      diagnostic_category |-> report.diagnostic_category,
      started_at |-> report.started_at,
      questions |-> [i \in 1..Len(report.questions) |-> heap[report.questions[i]]],
      general_notes |-> IF report.general_notes = 0 THEN <<>>
                        ELSE lists[report.general_notes] ]

\* the addresses of the session's own slot dictionaries
SessionSlots ==
    UNION { {sess.questions_by_subcat[k].slots[j] :
                j \in 1..Len(sess.questions_by_subcat[k].slots)} :
            k \in 1..Len(sess.questions_by_subcat) }

ReportStaysPut == phase = "finalized" => ReportView' = ReportView

RECURSIVE CatalogIds(_, _)
\* the question ids of the first n subcategories of a catalog category, in
\* catalog order
CatalogIds(raw, n) ==
    IF n = 0 THEN <<>>
    ELSE CatalogIds(raw, n - 1) \o
         [i \in 1..Len(raw[n].questions) |-> raw[n].questions[i].id]

\* C4: the report lists exactly the session's slots, subcategory by
\* subcategory in catalog order and in slot order within each, and each entry
\* carries the transcript and typed answer last committed to its slot.
C4_ReportFlattensInOrder ==
    phase = "finalized" =>
        LET qbs == sess.questions_by_subcat
            raw == question_sets[sess.diagnostic_category]
            q == ReportView.questions
        IN  /\ Len(q) = SumLens(qbs, Len(qbs))
            /\ \A k \in 1..Len(qbs) : \A j \in 1..Len(qbs[k].slots) :
                  report.questions[SumLens(qbs, k - 1) + j] = qbs[k].slots[j]
            /\ [i \in 1..Len(q) |-> q[i].question_id] = CatalogIds(raw, Len(raw))
            /\ \A i \in 1..Len(q) :
                  /\ q[i].transcript = committed[report.questions[i]].transcript
                  /\ q[i].typed_answer = committed[report.questions[i]].typed_answer

\* a report over two subcategories whose last slot carries committed texts
C4_Witness ==
    /\ phase = "finalized"
    /\ Len(report.questions) = 2
    /\ sess.diagnostic_category = "Anxiety"
    /\ heap[report.questions[2]].typed_answer # <<>>
    /\ heap[report.questions[2]].transcript # <<>>
    /\ heap[report.questions[1]].typed_answer = <<>>

\* the index '-NEXT-' was pressed at could advance
TrailMoved ==
    CanNext([sess EXCEPT !.current_subcat = trail.cursor[1],
                         !.current_index = trail.cursor[2]])

\* C5 (as claimed): from every cursor position, '-NEXT-' directly followed by
\* '-PREV-' restores the cursor.
C5_RoundTripEverywhere ==
    (phase = "question" /\ trail.ev = "next,prev") => Cursor(sess) = trail.cursor

\* C5 (amended): '-NEXT-' directly followed by '-PREV-' restores the cursor
\* from every position but the last of its subcategory; there '-NEXT-' stays
\* and '-PREV-' then steps back (or stays, in a one-slot subcategory).  Both
\* handlers commit the displayed buffers, so the slots are as before the pair
\* whenever the buffers held nothing uncommitted at '-NEXT-'.
C5_RoundTripInside ==
    (phase = "question" /\ trail.ev = "next,prev") =>
        /\ sess.current_subcat = trail.cursor[1]
        /\ IF TrailMoved \/ trail.cursor[2] = 0
           THEN sess.current_index = trail.cursor[2]
           ELSE sess.current_index = trail.cursor[2] - 1
        /\ trail.clean => heap = trail.heap

\* the pair was pressed from a position that is not the last, on slots that
\* already carry text
C5_Witness ==
    /\ phase = "question"
    /\ trail.ev = "next,prev"
    /\ TrailMoved
    /\ trail.clean
    /\ heap[get_slot(sess)].typed_answer # <<>>

LastIndex(s) == Len(SlotsOf(s.questions_by_subcat, s.current_subcat)) - 1

NextMovesOneStep ==
    NextQuestion =>
        /\ sess'.current_subcat = sess.current_subcat
        /\ error' = error /\ phase' = phase
        /\ IF sess.current_index < LastIndex(sess)
           THEN sess'.current_index = sess.current_index + 1 /\ popup' = ""
           ELSE /\ sess'.current_index = sess.current_index
                /\ popup' = "Last question in this section."

PrevMovesOneStep ==
    PrevQuestion =>
        /\ sess'.current_subcat = sess.current_subcat
        /\ error' = error /\ phase' = phase
        /\ IF sess.current_index > 0
           THEN sess'.current_index = sess.current_index - 1 /\ popup' = ""
           ELSE /\ sess'.current_index = sess.current_index
                /\ popup' = "First question in this section."

\* C6: '-NEXT-' / '-PREV-' move the index by exactly one inside the current
\* subcategory; at the last / first index the cursor stays and the notice is
\* shown, without error; the subcategory never changes.
C6_NavigateOneStep == [][NextMovesOneStep /\ PrevMovesOneStep]_vars

\* '-NEXT-' was pressed on the last question of a two-question section
C6_Witness ==
    /\ phase = "question"
    /\ popup = "Last question in this section."
    /\ sess.current_index = 1

SwitchChecksSection ==
    \A v \in ComboValues(sess) :
        Subcat(v) =>
            IF HasKey(sess.questions_by_subcat, v)
            THEN Cursor(sess') = <<v, 0>>
            ELSE Cursor(sess') = Cursor(sess) /\ error' = "UnknownSectionError"

\* C7: a section switch to a subcategory the session does not have fails with
\* UnknownSectionError and leaves the cursor unchanged; to one it has, it sets
\* current_subcat and resets current_index to 0.
C7_SwitchSection == [][SwitchChecksSection]_vars

PrimaryAccessesBuffer == pc \in {"start_recording", "concatenate"}

C10_EmptyStopRecoverable ==
    ( /\ recorder_stream # 0
      /\ streams[recorder_stream] = "closed"
      /\ recorder_chunks = <<>>
      /\ pc = "idle" ) => phase # "crashed"

IsPrefix(a, b) == Len(a) <= Len(b) /\ SubSeq(b, 1, Len(a)) = a

\* a '-STOP_REC-' handler that saved a take joins its text to the displayed
\* transcript: after a newline if there was text, alone if there was none
TakeAppended ==
    \A ts \in Timestamps, raw \in WhisperTexts :
        (StopRecSave(ts, raw) /\ phase' = "question") =>
            LET old == RStrip(window.TRANSCRIPT)
                text == Strip(raw)
            IN  window'.TRANSCRIPT =
                    IF old = <<>> THEN text ELSE old \o <<"\n">> \o text

\* the displayed transcript extends the current slot's, and no step of the
\* session shortens or rewrites the transcript of any slot
TranscriptsOnlyGrow ==
    /\ (phase = "question" /\ pc = "idle") =>
           IsPrefix(heap[get_slot(sess)].transcript, window.TRANSCRIPT)
    /\ phase = "question" =>
           \A a \in 1..Len(heap) : IsPrefix(heap[a].transcript, heap'[a].transcript)

\* C12: each saved take's transcription is joined to the existing transcript
\* of the displayed question, old + newline + text, or text alone when there
\* was none; a slot's transcript only ever grows at its end, so no earlier
\* take is dropped and takes stand in capture order.
C12_TakesAppendInOrder == [][TakeAppended /\ TranscriptsOnlyGrow]_vars

\* two takes on one question, the first already committed to the slot
C12_Witness ==
    /\ phase = "question" /\ pc = "idle"
    /\ heap[get_slot(sess)].transcript = <<"x">>
    /\ window.TRANSCRIPT = <<"x", "\n", "x">>

AllSpace(s) == \A i \in 1..Len(s) : IsSpace(s[i])

\* t is x without its trailing whitespace
IsRightTrimOf(t, x) ==
    /\ IsPrefix(t, x)
    /\ AllSpace(SubSeq(x, Len(t) + 1, Len(x)))
    /\ t # <<>> => ~IsSpace(t[Len(t)])

\* t is x without its leading and trailing whitespace
IsTrimOf(t, x) ==
    \E i \in 0..Len(x) :
        /\ AllSpace(SubSeq(x, 1, i))
        /\ IsRightTrimOf(t, SubSeq(x, i + 1, Len(x)))
        /\ t # <<>> => ~IsSpace(t[1])

\* the texts a slot may have held before a commit
EarlierTexts == {<<>>, <<"b">>, <<"x", "\n", "x">>}

\* what commit_current_slot does to the heap, on the cursor and buffers of
\* the state
CommitOverwrites ==
    (phase = "question" /\ pc = "idle") =>
        LET a == get_slot(sess)
            h1 == commit_current_slot(heap, sess, window)
            h2 == commit_current_slot(h1, sess, window)
        IN  /\ IsRightTrimOf(h1[a].transcript, window.TRANSCRIPT)
            /\ IsTrimOf(h1[a].typed_answer, window.TYPED)
            /\ h1[a].question_id = heap[a].question_id
            /\ h1[a].question_text = heap[a].question_text
            /\ h1[a].audio_path = heap[a].audio_path
            /\ DOMAIN h1 = DOMAIN heap
            /\ \A b \in DOMAIN heap : b # a => h1[b] = heap[b]
            /\ \A t0 \in EarlierTexts, t1 \in EarlierTexts :
                  commit_current_slot(
                      [heap EXCEPT ![a].transcript = t0, ![a].typed_answer = t1],
                      sess, window) = h1
            /\ h2 = h1

Notices == {"Last question in this section.", "First question in this section."}

\* a boundary notice is showing: the last handler committed and left the
\* buffers as they were, so whatever commits again changes no slot
CommitTwiceSame ==
    (phase = "question" /\ pc = "idle" /\ popup \in Notices) => heap' = heap

\* C13: commit_current_slot overwrites transcript and typed_answer of the slot
\* at the cursor with the right-trimmed and the trimmed buffer, whatever the
\* slot held, touches nothing else, and applied twice is as applied once.
C13_CommitOverwritesIdempotent == []CommitOverwrites /\ [][CommitTwiceSame]_vars

\* '-NEXT-' at the last question has committed an untrimmed typed answer over
\* a slot that also carries a transcript
C13_Witness ==
    /\ phase = "question" /\ pc = "idle"
    /\ popup = "Last question in this section."
    /\ window.TYPED = <<" ", "b", " ">>
    /\ heap[get_slot(sess)].typed_answer = <<"b">>
    /\ heap[get_slot(sess)].transcript = <<"x">>

\* sub occurs in s as a contiguous run
Contains(sub, s) ==
    \E i \in 0..(Len(s) - Len(sub)) : SubSeq(s, i + 1, i + Len(sub)) = sub

\* what '-SAVE_NOTE-' does with the text it is given
SaveNoteEffect ==
    \A t \in NoteInputs, ts \in Timestamps :
        GeneralNotes(t, ts) =>
            LET old == lists[sess.general_notes]
                new == lists'[sess.general_notes]
            IN  IF Strip(t) = <<>>
                THEN new = old
                ELSE /\ Len(new) = Len(old) + 1
                     /\ SubSeq(new, 1, Len(old)) = old
                     /\ Contains(Strip(t), new[Len(new)])
                     /\ Contains(Isoformat(ts), new[Len(new)])

\* no step of a session replaces the notes list, or changes, reorders or
\* removes an entry of it
NotesOnlyGrow ==
    sess.general_notes # 0 =>
        /\ sess'.general_notes = sess.general_notes
        /\ IsPrefix(lists[sess.general_notes], lists'[sess.general_notes])

\* C14: general_notes is append-only: a note that trims to nothing leaves it
\* unchanged, any other note adds exactly one entry, last, holding the text
\* and the time, and no step changes, reorders or removes an entry.
C14_NotesAppendOnly == [][SaveNoteEffect /\ NotesOnlyGrow]_vars

\* two notes were saved and an empty one was then refused
C14_Witness ==
    /\ phase = "question"
    /\ Len(lists[sess.general_notes]) = 2
    /\ popup = "Note is empty."

\* between two states, no slot field differs but fields F of the slot at a
OnlyFieldsChange(a, F) ==
    /\ DOMAIN heap' = DOMAIN heap
    /\ \A b \in DOMAIN heap : \A f \in DOMAIN heap[b] :
          (b # a \/ f \notin F) => heap'[b][f] = heap[b][f]

\* every step of a session leaves the slots alone, or is a handler's commit of
\* the slot at the cursor it started on, or a saved take's audio_path on that
\* slot; the note handler changes no slot; the subcategories keep their slots
SlotFrame ==
    SessionExists =>
        /\ sess'.questions_by_subcat = sess.questions_by_subcat
        /\ \/ heap' = heap
           \/ /\ phase = "question" /\ pc = "idle"
              /\ OnlyFieldsChange(get_slot(sess), {"transcript", "typed_answer"})
           \/ /\ phase = "question" /\ pc = "concatenate"
              /\ OnlyFieldsChange(get_slot(sess), {"audio_path"})
        /\ (\E t \in NoteInputs, ts \in Timestamps : GeneralNotes(t, ts)) => heap' = heap
        /\ (\E e \in BOOLEAN : Play(e)) => heap' = heap

\* the slots of the session are those built from the catalog, in its order
SlotsAsBuilt ==
    SessionExists =>
        LET raw == question_sets[sess.diagnostic_category]
            qbs == sess.questions_by_subcat
        IN  /\ Keys(qbs) = [k \in 1..Len(raw) |-> raw[k].subcat]
            /\ \A k \in 1..Len(qbs) :
                  /\ Len(qbs[k].slots) = Len(raw[k].questions)
                  /\ \A j \in 1..Len(qbs[k].slots) :
                        /\ heap[qbs[k].slots[j]].question_id = raw[k].questions[j].id
                        /\ heap[qbs[k].slots[j]].question_text = raw[k].questions[j].text

\* C15: slots change only by a commit of the displayed buffers into the slot
\* at the cursor or by a saved take's audio_path; moving the cursor, switching
\* section and saving a note change no slot beyond that commit; question_id and
\* question_text never change, and every subcategory keeps the slots it was
\* built with, in order.
C15_SlotFrame == [][SlotFrame /\ SlotsAsBuilt /\ SlotsAsBuilt']_vars

\* after a section switch and a saved note, the slot left behind carries a
\* transcript, a typed answer and a recording, the slot arrived at nothing
C15_Witness ==
    /\ phase = "question" /\ pc = "idle"
    /\ sess.current_subcat = "Sleep"
    /\ lists[sess.general_notes] # <<>>
    /\ heap[1].transcript # <<>>
    /\ heap[1].typed_answer # <<>>
    /\ heap[1].audio_path # <<>>
    /\ heap[2] = [question_id |-> 4, question_text |-> "t4", transcript |-> <<>>,
                  typed_answer |-> <<>>, audio_path |-> <<>>]

\* the state is that of a session just created for category c: one slot per
\* catalog question in catalog order, all texts empty, the cursor on the first
\* subcategory at index 0, the question window reading events
CreatedFor(c) ==
    LET raw == question_sets[c]
        qbs == sess.questions_by_subcat
    IN  /\ phase = "question"
        /\ error = ""
        /\ sess.diagnostic_category = c
        /\ Keys(qbs) = [k \in 1..Len(raw) |-> raw[k].subcat]
        /\ Len(heap) = SumLens(qbs, Len(qbs))
        /\ Flatten(qbs, Len(qbs)) = [a \in 1..Len(heap) |-> a]
        /\ \A k \in 1..Len(raw) :
              /\ Len(qbs[k].slots) = Len(raw[k].questions)
              /\ \A j \in 1..Len(raw[k].questions) :
                    heap[qbs[k].slots[j]] =
                        [question_id |-> raw[k].questions[j].id,
                         question_text |-> raw[k].questions[j].text,
                         transcript |-> <<>>, typed_answer |-> <<>>,
                         audio_path |-> <<>>]
        /\ Len(raw) > 0
        /\ Cursor(sess) = <<raw[1].subcat, 0>>
        /\ lists[sess.general_notes] = <<>>

\* 'Start Session' on a name and a date of birth that pass the checks, for a
\* category among cats, creates the session
CreatesSession(cats) ==
    \A n \in NameInputs, d \in DobInputs, c \in cats, ts \in Timestamps :
        (StartSession(n, d, c, ts) /\ Strip(n) # <<>> /\ FromIsoformatOk(Strip(d)))
            => CreatedFor(c)'

\* C16: for every valid name and date of birth and every category of the
\* catalog, starting the session succeeds and yields a session with one empty
\* slot per catalog question, in catalog order, the cursor on the first
\* subcategory at index 0.
C16_CreateSessionSucceeds == [][CreatesSession(DOMAIN question_sets)]_vars

\* in the phases given, the progress labels of the question window are the
\* reference computation on the session's cursor, and within their bounds
ProgressMatches(phases) ==
    (SessionExists /\ phase \in phases) =>
        /\ HasKey(sess.questions_by_subcat, sess.current_subcat)
        /\ LET qbs == sess.questions_by_subcat
               k == KeyIndex(qbs, sess.current_subcat)
               section_total == Len(qbs[k].slots)
               section_pos == sess.current_index + 1
               overall_total == SumLens(qbs, Len(qbs))
               overall_pos == SumLens(qbs, k - 1) + section_pos
           IN  /\ window.SECTION_PROG = <<section_pos, section_total>>
               /\ window.TOTAL_PROG = <<overall_pos, overall_total>>
               /\ 1 <= section_pos /\ section_pos <= section_total
               /\ 1 <= overall_pos /\ overall_pos <= overall_total

\* C17: whenever the session has a cursor and has not been left by Finish or
\* exit, the displayed progress is the reference computation on that cursor:
\* index + 1 of the size of the current subcategory, and the sizes of the
\* subcategories before it plus that, of the sum of all sizes; both positions
\* lie between 1 and their totals.
C17_ProgressMatchesReference == ProgressMatches({"question", "crashed"})

\* a '-STOP_REC-' handler that saved a take writes the recording's path, named
\* after the question, to the slot the capture was started on, and joins the
\* transcription to the displayed transcript of that slot
TakeGoesToStartSlot ==
    \A ts \in Timestamps, raw \in WhisperTexts :
        (StopRecSave(ts, raw) /\ phase' = "question") =>
            /\ OnlyFieldsChange(capture_slot, {"audio_path"})
            /\ heap'[capture_slot].audio_path =
                   WavPath(sess.started_at, heap[capture_slot].question_id, ts)
            /\ get_slot(sess) = capture_slot

\* C18: the recording and transcription of a capture go to the slot that was
\* at the cursor when the capture was started, whatever moves of the cursor
\* come between start and stop.
C18_CaptureBoundToStartSlot == [][TakeGoesToStartSlot]_vars

\* a step that moves the cursor or finalizes first stores the displayed
\* buffers, trimmed, in the slot it leaves
CommitBeforeLeaving ==
    (phase = "question" /\ pc = "idle"
        /\ (Cursor(sess') # Cursor(sess) \/ phase' = "finalized")) =>
        /\ heap'[get_slot(sess)].transcript = RStrip(window.TRANSCRIPT)
        /\ heap'[get_slot(sess)].typed_answer = Strip(window.TYPED)

\* while the cursor stays, the buffers change only by the clinician's typing,
\* by a take joined to the transcript, and by the trimmed texts being shown
\* again after a commit; a slot that is not displayed keeps
\* its texts; a slot arrived at is displayed with its stored texts
BuffersKept ==
    (phase = "question" /\ phase' = "question") =>
        /\ Cursor(sess') = Cursor(sess) =>
              /\ \/ window'.TYPED \in {window.TYPED, Strip(window.TYPED)}
                 \/ \E t \in TypedInputs : TypeText(t)
              /\ IsPrefix(RStrip(window.TRANSCRIPT), window'.TRANSCRIPT)
        /\ \A a \in DOMAIN heap :
              a # get_slot(sess) =>
                  /\ heap'[a].transcript = heap[a].transcript
                  /\ heap'[a].typed_answer = heap[a].typed_answer
        /\ Cursor(sess') # Cursor(sess) =>
              /\ window'.TRANSCRIPT = heap'[get_slot(sess')].transcript
              /\ window'.TYPED = heap'[get_slot(sess')].typed_answer

\* a confirmed Finish reports every slot with the texts it then holds
ReportsStored ==
    phase' = "finalized" =>
        \A a \in DOMAIN heap' :
            \E i \in 1..Len(report'.questions) : report'.questions[i] = a

\* C19: '-NEXT-', '-PREV-', '-SUBCAT-' and a confirmed '-FINISH-' store the
\* displayed transcript and typed answer (trimmed) in the slot at the cursor
\* before the cursor moves or the report is built; the buffers of a displayed
\* slot are never reset otherwise and stored texts change by no other slot's
\* commit, so the report carries for each slot the last buffers shown for it.
C19_CommitObligation == [][CommitBeforeLeaving /\ BuffersKept /\ ReportsStored]_vars

\* a report after edits on both questions, finished from the first after
\* going forth and back
C19_Witness ==
    /\ phase = "finalized"
    /\ sess.diagnostic_category = "Mood"
    /\ sess.current_index = 0
    /\ heap[report.questions[1]].typed_answer = <<"b">>
    /\ heap[report.questions[2]].transcript = <<"x">>
    /\ heap[report.questions[2]].typed_answer = <<"b">>

\* C20: when the session has ended, by a confirmed Finish or a confirmed
\* exit, no input stream is open and no callback is appending to the buffer.
C20_NoCaptureOutlivesSession ==
    phase \in Terminal => (ActiveStreams = {} /\ cb = "idle")

=============================================================================
